---- MODULE Spec2Model ----
(***************************************************************************)
(* A model of src/script.js (AnimationAPI): the AnimationController frame  *)
(* loop and the TouchHandler gesture recognizer.                           *)
(*                                                                         *)
(* Time is an integer clock `now` (performance.now() and the timestamp     *)
(* handed to frame callbacks).  Progress elapsed/duration is kept as its   *)
(* numerator over the denominator `duration`; an animated value is kept as *)
(* its numerator over duration^3 (see Value), so no rounding is involved.  *)
(***************************************************************************)
EXTENDS Integers, Sequences, FiniteSets, TLC

VARIABLES
    now,             \* the clock read by performance.now()
    \* ---- AnimationController (one controller) ----
    duration,        \* this.duration
    animationFrame,  \* this.animationFrame: a frame handle or Null
    startTime,       \* this.startTime
    willChange,      \* this.element.style.willChange
    frameCallbacks,  \* the browser's map of requested frame callbacks: handle -> session
    nextHandle,      \* the handle the next requestAnimationFrame returns
    callbackHandles, \* handles still to be run in the frame in progress
    sessions,        \* sessions[s] = the (from, to) captured by the s-th animate() call
    log,             \* calls observed so far: animate / onUpdate / onComplete / cleanup
    \* ---- TouchHandler ----
    th,              \* the handler's fields, its emissions and callback invocations
    listeners,       \* native listeners attached to the element
    nextFn,          \* identity of the next closure created
    regs,            \* (event, callback) registrations since the last destroy()
    gest,            \* what the environment has delivered since the last start event
    destroyed,       \* destroy() has been called
    mh,              \* a second handler, driven by the mouse (mirror runs only)
    phys,            \* one physical tap as the browser delivers it (compatibility runs only)
    \* ---- utils.debounce / utils.throttle, ResponsiveHandler ----
    ut,              \* timers of setTimeout, the closures' variables, calls and invocations
    rh               \* the viewport and the ResponsiveHandler's fields

animVars == <<duration, animationFrame, startTime, willChange, frameCallbacks,
              nextHandle, callbackHandles, sessions, log>>
touchVars == <<th, listeners, nextFn, regs, gest, destroyed, mh, phys>>
utilVars == <<ut, rh>>
vars == <<now, animVars, touchVars, utilVars>>

----------------------------------------------------------------------------
(* Bounds of the model *)

MaxDuration == 3   \* durations 1..MaxDuration
MaxDt == 2         \* a frame comes 1..MaxDt ticks after the previous one
MaxSessions == 2   \* animate() calls per run
MaxStart == 2      \* animate() is called at clock values 0..MaxStart

MaxTime == MaxStart + MaxDuration

\* The values animations run between: the opacities of fadeIn and fadeOut.
Values == {0, 1}

----------------------------------------------------------------------------
(* AnimationController *)

Null == 0   \* null; frame handles are positive

\* The controller and the frame scheduler as one record, so that the
\* steps of a handler can be composed.
Ctl ==
    [animationFrame |-> animationFrame, startTime |-> startTime,
     willChange |-> willChange, frameCallbacks |-> frameCallbacks,
     nextHandle |-> nextHandle, sessions |-> sessions, log |-> log]

SetCtl(st) ==
    /\ animationFrame' = st.animationFrame
    /\ startTime' = st.startTime
    /\ willChange' = st.willChange
    /\ frameCallbacks' = st.frameCallbacks
    /\ nextHandle' = st.nextHandle
    /\ sessions' = st.sessions
    /\ log' = st.log

Entry(op, s, value, progress) ==
    [op |-> op, s |-> s, value |-> value, progress |-> progress]

Logged(st, e) == [st EXCEPT !.log = Append(@, e)]

\* utils.requestFrame: the callback of session s is queued under a new handle,
\* which the caller stores in this.animationFrame.
RequestFrame(st, s) ==
    [st EXCEPT
        !.frameCallbacks = [h \in DOMAIN @ \cup {st.nextHandle} |->
                               IF h = st.nextHandle THEN s ELSE @[h]],
        !.animationFrame = st.nextHandle,
        !.nextHandle = @ + 1]

\* utils.cancelFrame: a handle that is not pending is ignored.
CancelFrame(st, id) ==
    [st EXCEPT !.frameCallbacks = [h \in DOMAIN @ \ {id} |-> @[h]]]

\* AnimationController.bezier at t = p/duration, as numerator over duration^3:
\* y = 3*(1-t)*t^2*p2y + t^3 with p1y = 0, p2y = 1.
Bezier(p, d) == 3 * (d - p) * p * p + p * p * p

\* from + (to - from) * easeProgress, as numerator over duration^3.
Value(from, to, p, d) == from * d * d * d + (to - from) * Bezier(p, d)

\* The exact value v, on the same scale.
Exact(v, d) == v * d * d * d

\* Math.min(elapsed / duration, 1), as numerator over duration.
Progress(elapsed, d) == IF elapsed >= d THEN d ELSE elapsed

\* cleanup() that forgets the frame handle without cancelling the request.
CleanupNoCancel(st) ==
    [st EXCEPT !.animationFrame = Null, !.willChange = "auto"]

\* AnimationController.cleanup
Cleanup(st) ==
    LET st1 == IF st.animationFrame # Null
               THEN [CancelFrame(st, st.animationFrame) EXCEPT !.animationFrame = Null]
               ELSE st
    IN  [st1 EXCEPT !.willChange = "auto"]

\* AnimationController.animate(from, to, onUpdate, onComplete) called at time t.
AnimateCall(st, from, to, t) ==
    LET s == Len(st.sessions) + 1
        st1 == IF st.animationFrame # Null
               THEN CancelFrame(st, st.animationFrame)
               ELSE st
        st2 == [st1 EXCEPT !.startTime = t,
                           !.sessions = Append(@, [from |-> from, to |-> to])]
    IN  RequestFrame(Logged(st2, Entry("animate", s, 0, 0)), s)

\* What a user callback does to the controller while it runs: nothing (None),
\* or one animate(from, to, ...) call on the same controller (<<from, to>>).
None == <<>>
Reentries == {None} \cup (Values \X Values)

Callback(st, r, t) == IF r = None THEN st ELSE AnimateCall(st, r[1], r[2], t)

\* Complete with cleanup() called before onComplete.
CompleteCleanupFirst(st, s, t, r2, r3) ==
    LET to == st.sessions[s].to
        u  == Callback(Logged(st, Entry("onUpdate", s, Exact(to, duration), duration)),
                       r2, t)
        c  == Logged(Cleanup(u), Entry("cleanup", s, 0, 0))
    IN  Callback(Logged(c, Entry("onComplete", s, 0, 0)), r3, t)

\* The completion branch of the frame callback of session s (progress = 1).
Complete(st, s, t, r2, r3) ==
    LET to == st.sessions[s].to
        u  == Callback(Logged(st, Entry("onUpdate", s, Exact(to, duration), duration)),
                       r2, t)
        c  == Callback(Logged(u, Entry("onComplete", s, 0, 0)), r3, t)
    IN  Logged(Cleanup(c), Entry("cleanup", s, 0, 0))

\* The closure `animate` of session s, run with timestamp t; r1, r2, r3 are
\* what the user's onUpdate, final onUpdate and onComplete do.
FrameCallback(st, s, t, r1, r2, r3) ==
    LET from == st.sessions[s].from
        to == st.sessions[s].to
        progress == Progress(t - st.startTime, duration)
        current == Value(from, to, progress, duration)
        u == Callback(Logged(st, Entry("onUpdate", s, current, progress)), r1, t)
    IN  IF progress < duration
        THEN RequestFrame(u, s)
        ELSE Complete(u, s, t, r2, r3)

RECURSIVE SortedSeq(_)
SortedSeq(S) ==
    IF S = {} THEN <<>>
    ELSE LET m == CHOOSE x \in S : \A y \in S : x <= y
         IN  <<m>> \o SortedSeq(S \ {m})

\* The handles of the pending frame callbacks, in the order they were requested.
PendingHandles == SortedSeq(DOMAIN frameCallbacks)

----------------------------------------------------------------------------
(* TouchHandler *)

Threshold == 10     \* config.touch.threshold
MaxVelocity == 10   \* config.touch.maxVelocity

MaxCallbacks == 3   \* on() registrations between two destroy() calls
MaxTouches == 2     \* fingers on the element at once
MaxClock == 1       \* gestures are delivered at clock values 0..MaxClock

Xs == {-20, 0, 6, 20}
Ys == {0, 8}
Points == [x : Xs, y : Ys]

EventNames == {"touchstart", "touchmove", "touchend", "tap", "swipe"}
\* The event names on() is called with.
RegEvents == {"tap", "swipe", "touchend"}

\* deltaX * deltaX + deltaY * deltaY: the square of `distance`.  With integer
\* coordinates, distance > threshold exactly when DistSq > threshold^2.
DistSq(dx, dy) == dx * dx + dy * dy

NoData == <<>>   \* the payload {}

\* Trigger with the callbacks run last-registered first.
\* What a callback can read of the handler while trigger() runs it.
Seen(h) ==
    [isDragging |-> h.isDragging,
     atRest |-> h.velocity.x = 0 /\ h.velocity.y = 0]

TriggerReversed(h, event, data) ==
    LET cbs == h.callbacks[event]
    IN  [h EXCEPT
            !.emitted = Append(@, [event |-> event, data |-> data]),
            !.seen = Append(@, Seen(h)),
            !.calls = @ \o [i \in 1..Len(cbs) |->
                               [cb |-> cbs[Len(cbs) + 1 - i], event |-> event,
                                data |-> data]]]

\* TouchHandler.trigger: every callback of callbacks[event], in array order.
Trigger(h, event, data) ==
    LET cbs == h.callbacks[event]
    IN  [h EXCEPT
            !.emitted = Append(@, [event |-> event, data |-> data]),
            !.seen = Append(@, Seen(h)),
            !.calls = @ \o [i \in 1..Len(cbs) |->
                               [cb |-> cbs[i], event |-> event, data |-> data]]]

\* TouchHandler.on
On(h, event, cb) == [h EXCEPT !.callbacks[event] = Append(@, cb)]

\* TouchHandler.onTouchStart, with e.touches[0] = p and performance.now() = t.
OnTouchStart(h, p, t) ==
    LET st == [x |-> p.x, y |-> p.y, time |-> t]
        h1 == [h EXCEPT !.touchStart = st, !.touchCurrent = st, !.isDragging = FALSE]
    IN  Trigger(h1, "touchstart", [x |-> st.x, y |-> st.y])

\* OnTouchMove with dragging entered at the threshold distance already (>=).
OnTouchMoveAtThreshold(h, touches, t) ==
    IF Len(touches) = 0 THEN h
    ELSE
    LET touch == touches[1]
        deltaX == touch.x - h.touchStart.x
        deltaY == touch.y - h.touchStart.y
        distance2 == DistSq(deltaX, deltaY)
        h1 == IF distance2 >= Threshold * Threshold
              THEN [h EXCEPT !.isDragging = TRUE] ELSE h
        timeDelta == t - h.touchStart.time
        h2 == [h1 EXCEPT !.touchCurrent = [x |-> touch.x, y |-> touch.y]]
        h3 == IF timeDelta > 0
              THEN [h2 EXCEPT !.velocity = [x |-> deltaX, y |-> deltaY, den |-> timeDelta]]
              ELSE h2
    IN  IF h1.isDragging
        THEN Trigger(h3, "touchmove",
                     [x |-> touch.x, y |-> touch.y, deltaX |-> deltaX,
                      deltaY |-> deltaY, distance2 |-> distance2])
        ELSE h1

\* TouchHandler.onTouchMove, with e.touches = touches and performance.now() = t.
\* A velocity deltaX / timeDelta is kept as numerator and denominator.
OnTouchMove(h, touches, t) ==
    IF Len(touches) = 0 THEN h
    ELSE
    LET touch == touches[1]
        deltaX == touch.x - h.touchStart.x
        deltaY == touch.y - h.touchStart.y
        distance2 == DistSq(deltaX, deltaY)
        h1 == IF distance2 > Threshold * Threshold
              THEN [h EXCEPT !.isDragging = TRUE] ELSE h
        timeDelta == t - h.touchStart.time
        h2 == [h1 EXCEPT !.touchCurrent = [x |-> touch.x, y |-> touch.y]]
        h3 == IF timeDelta > 0
              THEN [h2 EXCEPT !.velocity = [x |-> deltaX, y |-> deltaY, den |-> timeDelta]]
              ELSE h2
    IN  IF h1.isDragging
        THEN Trigger(h3, "touchmove",
                     [x |-> touch.x, y |-> touch.y, deltaX |-> deltaX,
                      deltaY |-> deltaY, distance2 |-> distance2])
        ELSE h1

\* Math.min(num / den, max) for den > 0, as numerator and denominator.
MinRat(num, den, max) ==
    IF num <= max * den THEN [num |-> num, den |-> den] ELSE [num |-> max, den |-> 1]

ZeroVelocity == [x |-> 0, y |-> 0, den |-> 1]

\* onTouchEnd with the terminal event triggered before the state is reset.
OnTouchEndResetLast(h) ==
    LET h1 == IF ~h.isDragging
              THEN Trigger(h, "tap", [x |-> h.touchStart.x, y |-> h.touchStart.y])
              ELSE Trigger(h, "swipe",
                     [x |-> h.touchCurrent.x, y |-> h.touchCurrent.y,
                      velocityX |-> MinRat(h.velocity.x, h.velocity.den, MaxVelocity),
                      velocityY |-> MinRat(h.velocity.y, h.velocity.den, MaxVelocity)])
        h2 == Trigger(h1, "touchend", NoData)
    IN  [h2 EXCEPT !.isDragging = FALSE, !.velocity = ZeroVelocity]

\* TouchHandler.onTouchEnd
OnTouchEnd(h) ==
    LET h1 == IF ~h.isDragging
              THEN Trigger(h, "tap", [x |-> h.touchStart.x, y |-> h.touchStart.y])
              ELSE Trigger(h, "swipe",
                     [x |-> h.touchCurrent.x, y |-> h.touchCurrent.y,
                      velocityX |-> MinRat(h.velocity.x, h.velocity.den, MaxVelocity),
                      velocityY |-> MinRat(h.velocity.y, h.velocity.den, MaxVelocity)])
        h2 == [h1 EXCEPT !.isDragging = FALSE, !.velocity = ZeroVelocity]
    IN  Trigger(h2, "touchend", NoData)

\* TouchHandler.onMouseDown / onMouseMove / onMouseUp
OnMouseDown(h, p, t) == OnTouchStart(h, p, t)

OnMouseMove(h, p, t) ==
    IF ~h.isDragging THEN h ELSE OnTouchMove(h, <<p>>, t)

OnMouseUp(h) == OnTouchEnd(h)

\* The handler as its constructor leaves it (callbacks = {}).
NewHandler ==
    [touchStart |-> [x |-> 0, y |-> 0, time |-> 0],
     touchCurrent |-> [x |-> 0, y |-> 0],
     isDragging |-> FALSE,
     velocity |-> ZeroVelocity,
     callbacks |-> [e \in EventNames |-> <<>>],
     emitted |-> <<>>,
     seen |-> <<>>,
     calls |-> <<>>]

\* A native event reaches a handler method: what the method emits and the
\* callbacks it invokes are collected from empty.
Fresh(h) == [h EXCEPT !.emitted = <<>>, !.seen = <<>>, !.calls = <<>>]

\* TouchHandler.setupListeners: six closures, created in this order.
NativeTypes == <<"touchstart", "touchmove", "touchend", "mousedown", "mousemove", "mouseup">>
SetupListeners == { [type |-> NativeTypes[i], fn |-> i] : i \in 1..6 }

\* element.removeEventListener(type, fn): removes the listener that is this
\* very function, if it is attached.
RemoveEventListener(ls, type, fn) == ls \ { [type |-> type, fn |-> fn] }

\* TouchHandler.destroy: three closures created on the spot (identities n,
\* n+1, n+2) are handed to removeEventListener; then callbacks = {}.
DestroyListeners(ls, n) ==
    RemoveEventListener(
        RemoveEventListener(
            RemoveEventListener(ls, "touchstart", n), "touchmove", n + 1),
        "touchend", n + 2)

DestroyHandler(h) == [h EXCEPT !.callbacks = [e \in EventNames |-> <<>>]]

Attached(type) == \E l \in listeners : l.type = type

----------------------------------------------------------------------------
(* utils.debounce, utils.throttle, utils.getBreakpoint, ResponsiveHandler *)

MaxDelay == 2       \* delay of debounce / limit of throttle: 1..MaxDelay
MaxCalls == 3       \* calls of the debounced / throttled function per run
MaxResizes == 2     \* resize events per run
MaxUtilClock == 5   \* timers run at clock values 0..MaxUtilClock

\* config.responsive.breakpoints
BreakMobile == 480
BreakTablet == 768
BreakDesktop == 1024

\* Viewport widths around the breakpoints.
Widths == {400, 480, 767, 768, 1023, 1024}
\* window.innerWidth: undefined or 0 (0), or a window as wide as the tablet breakpoint.
InnerWidths == {0, BreakTablet}
Viewports == [clientWidth : Widths, innerWidth : InnerWidths]

Max(a, b) == IF a > b THEN a ELSE b

\* utils.getViewportWidth (innerWidth || 0: an undefined innerWidth is 0 here).
GetViewportWidth(v) == Max(v.clientWidth, v.innerWidth)

\* utils.getBreakpoint with <= in place of <.
GetBreakpointInclusive(v) ==
    LET width == GetViewportWidth(v)
    IN  IF width <= BreakMobile THEN "small"
        ELSE IF width <= BreakTablet THEN "mobile"
        ELSE IF width <= BreakDesktop THEN "tablet"
        ELSE "desktop"

\* utils.getBreakpoint, reading the viewport v.
GetBreakpoint(v) ==
    LET width == GetViewportWidth(v)
    IN  IF width < BreakMobile THEN "small"
        ELSE IF width < BreakTablet THEN "mobile"
        ELSE IF width < BreakDesktop THEN "tablet"
        ELSE "desktop"

\* setTimeout(callback, d) at time t: a timer of the given kind, carrying the
\* arguments its callback has captured; its id is u.nextTimer.
SetTimeout(u, kind, args, d, t) ==
    [u EXCEPT !.timers = @ \cup {[id |-> u.nextTimer, due |-> t + d,
                                  kind |-> kind, args |-> args]},
              !.nextTimer = @ + 1]

\* clearTimeout(id): an id that is not pending (or undefined, Null) is ignored.
ClearTimeout(u, id) == [u EXCEPT !.timers = {tm \in @ : tm.id # id}]

\* executedFunction without the clearTimeout before setTimeout.
DebouncedCallNoClear(u, args, t) ==
    [SetTimeout(u, "later", args, u.delay, t) EXCEPT !.timeout = u.nextTimer]

\* The function debounce() returns (executedFunction), called at time t.
DebouncedCall(u, args, t) ==
    [SetTimeout(ClearTimeout(u, u.timeout), "later", args, u.delay, t)
        EXCEPT !.timeout = u.nextTimer]

\* The timer callback `later` of debounce, run at time t: clearTimeout(timeout),
\* then func(...args).
Later(u, args, t) ==
    [ClearTimeout(u, u.timeout) EXCEPT !.invoked = Append(@, [at |-> t, args |-> args])]

\* The throttled function with inThrottle never set.
ThrottledCallNoFlag(u, args, t) ==
    [u EXCEPT !.invoked = Append(@, [at |-> t, args |-> args])]

\* The function throttle() returns, called at time t.
ThrottledCall(u, args, t) ==
    IF ~u.inThrottle
    THEN SetTimeout([u EXCEPT !.invoked = Append(@, [at |-> t, args |-> args]),
                              !.inThrottle = TRUE],
                    "release", args, u.delay, t)
    ELSE u

\* The timer callback of throttle: inThrottle = false.
Release(u) == [u EXCEPT !.inThrottle = FALSE]

\* The closures debounce(fn, d) and throttle(fn, d) return, not yet called.
NewUtils(d) ==
    [delay |-> d, timers |-> {}, nextTimer |-> 1, timeout |-> Null,
     inThrottle |-> FALSE, calls |-> <<>>, invoked |-> <<>>]

\* A call of the returned function at time t, as the caller sees it.
Called(u, t) == [u EXCEPT !.calls = Append(@, [at |-> t, args |-> Len(@) + 1])]

\* One utils.getBreakpoint() call, as the handler sees it.
Probe(v) == [w |-> GetViewportWidth(v), label |-> GetBreakpoint(v)]

\* ResponsiveHandler.constructor with the viewport v and a 'change' callback.
NewResponsive(v) ==
    [viewport |-> v, currentBreakpoint |-> GetBreakpoint(v), notified |-> <<>>,
     probes |-> <<Probe(v)>>, crossed |-> FALSE, resizes |-> 0]

\* The debounced resize callback with the comparison left out.
ResizeSettledAlways(r) ==
    LET newBreakpoint == GetBreakpoint(r.viewport)
    IN  [r EXCEPT !.currentBreakpoint = newBreakpoint,
                  !.notified = Append(@, newBreakpoint)]

\* The debounced resize callback of ResponsiveHandler.setupListener, with
\* ResponsiveHandler.trigger('change', {breakpoint}).
ResizeSettled(r) ==
    LET newBreakpoint == GetBreakpoint(r.viewport)
    IN  IF newBreakpoint # r.currentBreakpoint
        THEN [r EXCEPT !.currentBreakpoint = newBreakpoint,
                       !.notified = Append(@, newBreakpoint)]
        ELSE r

\* No physical tap under way.
NoTap == [stage |-> 0, taps |-> 0]

----------------------------------------------------------------------------
(* Initial state: a controller and a handler as their constructors leave them *)

NoGesture ==
    [kind |-> "none", start |-> [x |-> 0, y |-> 0], last |-> [x |-> 0, y |-> 0],
     exceeded |-> FALSE, ends |-> 0, lastEvent |-> "none", fingers |-> 0]

ControllerInit(D) ==
    /\ duration \in D
    /\ animationFrame = Null
    /\ startTime = Null
    /\ willChange = "transform"
    /\ frameCallbacks = <<>>
    /\ nextHandle = 1
    /\ callbackHandles = <<>>
    /\ sessions = <<>>
    /\ log = <<>>

HandlerInit ==
    /\ th = NewHandler
    /\ mh = NewHandler
    /\ listeners = SetupListeners
    /\ nextFn = 7
    /\ regs = <<>>
    /\ gest = NoGesture
    /\ destroyed = FALSE
    /\ phys = NoTap

UtilsInit(D, V) ==
    /\ ut \in {NewUtils(d) : d \in D}
    /\ rh \in {NewResponsive(v) : v \in V}

DefaultViewport == [clientWidth |-> BreakDesktop, innerWidth |-> 0]

Init ==
    /\ now = 0
    /\ ControllerInit(1..MaxDuration)
    /\ HandlerInit
    /\ UtilsInit({MaxDelay}, {DefaultViewport})

----------------------------------------------------------------------------
(* AnimationController: actions *)

\* animate() called by the page, between frames.
Animate ==
    /\ callbackHandles = <<>>
    /\ Len(sessions) < MaxSessions
    /\ now <= MaxStart
    /\ \E from \in Values, to \in Values : SetCtl(AnimateCall(Ctl, from, to, now))
    /\ UNCHANGED <<now, duration, callbackHandles, touchVars, utilVars>>

\* The browser starts a frame: the callbacks pending now are the ones it runs.
BeginFrame ==
    /\ callbackHandles = <<>>
    /\ DOMAIN frameCallbacks # {}
    /\ \E dt \in 1..MaxDt : now + dt <= MaxTime /\ now' = now + dt
    /\ callbackHandles' = PendingHandles
    /\ UNCHANGED <<duration, animationFrame, startTime, willChange, frameCallbacks,
                   nextHandle, sessions, log, touchVars, utilVars>>

Count(rs) == Cardinality({i \in DOMAIN rs : rs[i] # None})

\* The re-entrant calls the bounds allow the callbacks of this frame callback.
Admissible(r1, r2, r3) ==
    /\ Progress(now - startTime, duration) < duration => r2 = None /\ r3 = None
    /\ Len(sessions) + Count(<<r1, r2, r3>>) <= MaxSessions
    /\ now > MaxStart => Count(<<r1, r2, r3>>) = 0

\* The browser runs the next callback of the frame, if it is still pending.
RunCallback ==
    /\ callbackHandles # <<>>
    /\ Head(callbackHandles) \in DOMAIN frameCallbacks
    /\ LET handle == Head(callbackHandles)
           s == frameCallbacks[handle]
       IN  \E r1 \in Reentries, r2 \in Reentries, r3 \in Reentries :
              /\ Admissible(r1, r2, r3)
              /\ SetCtl(FrameCallback(CancelFrame(Ctl, handle), s, now, r1, r2, r3))
    /\ callbackHandles' = Tail(callbackHandles)
    /\ UNCHANGED <<now, duration, touchVars, utilVars>>

\* A callback cancelled earlier in this frame is not run.
SkipCancelled ==
    /\ callbackHandles # <<>>
    /\ Head(callbackHandles) \notin DOMAIN frameCallbacks
    /\ callbackHandles' = Tail(callbackHandles)
    /\ UNCHANGED <<now, duration, animationFrame, startTime, willChange, frameCallbacks,
                   nextHandle, sessions, log, touchVars, utilVars>>

Next == Animate \/ BeginFrame \/ RunCallback \/ SkipCancelled

Spec == Init /\ [][Next]_vars

----------------------------------------------------------------------------
(* TouchHandler: actions *)

\* The clock reading of a native event: 0..c ticks after the previous one.
Tick(c) == \E dt \in 0..c : now + dt <= c /\ now' = now + dt

Exceeds(p, q) == DistSq(p.x - q.x, p.y - q.y) > Threshold * Threshold

\* The environment's record of the gesture: a start event opens a new one.
Started(kind, p, ev, fingers) ==
    [kind |-> kind, start |-> p, last |-> p, exceeded |-> FALSE, ends |-> 0,
     lastEvent |-> ev, fingers |-> fingers]

Moved(kind, p, ev) ==
    [gest EXCEPT !.kind = IF @ = kind THEN kind ELSE "mixed",
                 !.last = p,
                 !.exceeded = @ \/ Exceeds(p, gest.start),
                 !.lastEvent = ev]

Ended(kind, ev, fingers) ==
    [gest EXCEPT !.kind = IF @ = kind THEN kind ELSE "mixed",
                 !.ends = IF @ < 2 THEN @ + 1 ELSE @,
                 !.lastEvent = ev,
                 !.fingers = fingers]

Noted(ev) == [gest EXCEPT !.lastEvent = ev]

TouchStart(P, c) ==
    /\ Attached("touchstart")
    /\ gest.fingers < MaxTouches
    /\ Tick(c)
    /\ \E p \in P :
          /\ th' = OnTouchStart(Fresh(th), p, now')
          /\ gest' = Started("touch", p, "touchstart", gest.fingers + 1)
    /\ UNCHANGED <<animVars, listeners, nextFn, regs, destroyed, mh, phys, utilVars>>

TouchMove(P, c) ==
    /\ Attached("touchmove")
    /\ gest.fingers > 0
    /\ Tick(c)
    /\ \/ \E p \in P :
             /\ th' = OnTouchMove(Fresh(th), <<p>>, now')
             /\ gest' = Moved("touch", p, "touchmove")
       \/ /\ th' = OnTouchMove(Fresh(th), <<>>, now')
          /\ gest' = Noted("touchmove")
    /\ UNCHANGED <<animVars, listeners, nextFn, regs, destroyed, mh, phys, utilVars>>

TouchEnd(c) ==
    /\ Attached("touchend")
    /\ gest.fingers > 0
    /\ Tick(c)
    /\ th' = OnTouchEnd(Fresh(th))
    /\ gest' = Ended("touch", "touchend", gest.fingers - 1)
    /\ UNCHANGED <<animVars, listeners, nextFn, regs, destroyed, mh, phys, utilVars>>

MouseDown(P, c) ==
    /\ Attached("mousedown")
    /\ Tick(c)
    /\ \E p \in P :
          /\ th' = OnMouseDown(Fresh(th), p, now')
          /\ gest' = Started("mouse", p, "mousedown", gest.fingers)
    /\ UNCHANGED <<animVars, listeners, nextFn, regs, destroyed, mh, phys, utilVars>>

MouseMove(P, c) ==
    /\ Attached("mousemove")
    /\ Tick(c)
    /\ \E p \in P :
          /\ th' = OnMouseMove(Fresh(th), p, now')
          /\ gest' = Moved("mouse", p, "mousemove")
    /\ UNCHANGED <<animVars, listeners, nextFn, regs, destroyed, mh, phys, utilVars>>

MouseUp(c) ==
    /\ Attached("mouseup")
    /\ Tick(c)
    /\ th' = OnMouseUp(Fresh(th))
    /\ gest' = Ended("mouse", "mouseup", gest.fingers)
    /\ UNCHANGED <<animVars, listeners, nextFn, regs, destroyed, mh, phys, utilVars>>

\* handler.on(event, callback) with a new function as callback.
Register ==
    /\ Len(regs) < MaxCallbacks
    /\ \E e \in RegEvents :
          /\ th' = On(Fresh(th), e, nextFn)
          /\ regs' = Append(regs, [event |-> e, cb |-> nextFn])
    /\ nextFn' = nextFn + 1
    /\ gest' = Noted("on")
    /\ UNCHANGED <<now, animVars, listeners, destroyed, mh, phys, utilVars>>

\* handler.destroy(), once per run.
Destroy ==
    /\ ~destroyed
    /\ listeners' = DestroyListeners(listeners, nextFn)
    /\ nextFn' = nextFn + 3
    /\ th' = DestroyHandler(Fresh(th))
    /\ regs' = <<>>
    /\ destroyed' = TRUE
    /\ gest' = Noted("destroy")
    /\ UNCHANGED <<now, animVars, mh, phys, utilVars>>

\* Gestures: every native event, with every point.
TouchInit == Init /\ duration = MaxDuration

TouchNext ==
    \/ TouchStart(Points, MaxClock) \/ TouchMove(Points, MaxClock) \/ TouchEnd(MaxClock)
    \/ MouseDown(Points, MaxClock) \/ MouseMove(Points, MaxClock) \/ MouseUp(MaxClock)

TouchSpec == TouchInit /\ [][TouchNext]_vars

\* Listeners: registration and destroy() between native events at two points,
\* all delivered at one clock reading.
FewPoints == {p \in Points : p.x \in {0, 20} /\ p.y = 0}

ListenerNext ==
    \/ TouchStart(FewPoints, 0) \/ TouchMove(FewPoints, 0) \/ TouchEnd(0)
    \/ MouseDown(FewPoints, 0) \/ MouseMove(FewPoints, 0) \/ MouseUp(0)
    \/ Register \/ Destroy

ListenerSpec == TouchInit /\ [][ListenerNext]_vars

\* Mirror runs: the same coordinates and clock readings are delivered to one
\* handler (th) as touchstart, touchmove*, touchend and to another (mh) as
\* mousedown, mousemove*, mouseup.
MirrorDown ==
    /\ gest.fingers = 0
    /\ Tick(MaxClock)
    /\ \E p \in Points :
          /\ th' = OnTouchStart(Fresh(th), p, now')
          /\ mh' = OnMouseDown(Fresh(mh), p, now')
          /\ gest' = Started("touch", p, "touchstart", 1)
    /\ UNCHANGED <<animVars, listeners, nextFn, regs, destroyed, phys, utilVars>>

MirrorMove ==
    /\ gest.fingers = 1
    /\ Tick(MaxClock)
    /\ \E p \in Points :
          /\ th' = OnTouchMove(Fresh(th), <<p>>, now')
          /\ mh' = OnMouseMove(Fresh(mh), p, now')
          /\ gest' = Moved("touch", p, "touchmove")
    /\ UNCHANGED <<animVars, listeners, nextFn, regs, destroyed, phys, utilVars>>

MirrorUp ==
    /\ gest.fingers = 1
    /\ Tick(MaxClock)
    /\ th' = OnTouchEnd(Fresh(th))
    /\ mh' = OnMouseUp(Fresh(mh))
    /\ gest' = Ended("touch", "touchend", 0)
    /\ UNCHANGED <<animVars, listeners, nextFn, regs, destroyed, phys, utilVars>>

MirrorNext == MirrorDown \/ MirrorMove \/ MirrorUp

MirrorSpec == TouchInit /\ [][MirrorNext]_vars

----------------------------------------------------------------------------
(* Properties of the AnimationController *)

Sessions == 1..Len(sessions)

IsEntry(i, op, s) == log[i].op = op /\ log[i].s = s

\* The completion branch of session s has run.
Completed(s) == \E i \in DOMAIN log : IsEntry(i, "cleanup", s)

\* onUpdate calls of session s with progress = 1 and value = to.
FinalUpdates(s) ==
    {i \in DOMAIN log : log[i] = Entry("onUpdate", s, Exact(sessions[s].to, duration), duration)}

\* C1: a session that runs to completion has had exactly one onUpdate call
\* with progress = 1 and value = to, counting every onUpdate call of its
\* frame callback.
C1_FinalUpdateOnce ==
    \A s \in Sessions : Completed(s) => Cardinality(FinalUpdates(s)) = 1

\* C2: once animate() has been called for a later animation while session A
\* was in flight (started, onComplete not yet invoked), A's onComplete is
\* never invoked.
C2_CancelledNeverCompletes ==
    \A j \in DOMAIN log, k \in DOMAIN log :
        (/\ j < k
         /\ log[j].op = "animate"
         /\ log[k].op = "onComplete"
         /\ log[k].s < log[j].s)
        => \E i \in 1..(j - 1) : IsEntry(i, "onComplete", log[k].s)

\* No frame is in progress and no frame callback is pending.
Idle == callbackHandles = <<>> /\ DOMAIN frameCallbacks = {}

\* C3: the last animate() call of a controller fires its onComplete exactly
\* once: when nothing is left to run, it has done so.
C3_LastSessionCompletes ==
    (Idle /\ sessions # <<>>) =>
        Cardinality({i \in DOMAIN log : IsEntry(i, "onComplete", Len(sessions))}) = 1

\* C4: within a session, onComplete comes after the session's onUpdate(to, 1),
\* no onUpdate of the session comes after its onComplete, cleanup comes after
\* onComplete, and cleanup leaves the frame handle null and will-change 'auto'.
C4_CompletionOrder ==
    /\ \A s \in Sessions : \A k \in DOMAIN log :
          /\ IsEntry(k, "onComplete", s) =>
                /\ \E j \in FinalUpdates(s) : j < k
                /\ \A j \in DOMAIN log : j > k => ~IsEntry(j, "onUpdate", s)
          /\ IsEntry(k, "cleanup", s) =>
                \E j \in 1..(k - 1) : IsEntry(j, "onComplete", s)
    /\ (log # <<>> /\ log[Len(log)].op = "cleanup") =>
          animationFrame = Null /\ willChange = "auto"

\* C4 witness: a session has completed although a later session was started
\* from one of its callbacks before its onComplete.
C4_Witness ==
    \E s \in Sessions : \E j \in DOMAIN log, k \in DOMAIN log :
        /\ j < k
        /\ log[j].op = "animate" /\ log[j].s > s
        /\ IsEntry(k, "onComplete", s)
        /\ Completed(s)

\* C5: the progress arguments of one session's onUpdate calls never decrease
\* and never exceed 1.
C5_ProgressMonotone ==
    \A i \in DOMAIN log, j \in DOMAIN log :
        (i < j /\ log[i].op = "onUpdate" /\ log[j].op = "onUpdate" /\ log[i].s = log[j].s)
        => log[i].progress <= log[j].progress /\ log[j].progress <= duration

----------------------------------------------------------------------------
(* Properties of the TouchHandler *)

Emitted(h, ev) == {i \in DOMAIN h.emitted : h.emitted[i].event = ev}

\* The last native event was the touchend that closes a sequence
\* touchstart, touchmove*, touchend.
ReleasedTouch ==
    gest.kind = "touch" /\ gest.lastEvent = "touchend" /\ gest.ends = 1

\* C6 as stated: if the pointer is within the threshold of the start point at
\* release, whatever the moves before, the release emits one tap and no swipe.
C6_TapByReleasePosition ==
    (ReleasedTouch /\ ~Exceeds(gest.last, gest.start)) =>
        Cardinality(Emitted(th, "tap")) = 1 /\ Emitted(th, "swipe") = {}

\* C6 as amended: if no move of the sequence was farther than the threshold
\* from the start point, the release emits one tap and no swipe.
C6_TapIfNeverExceeded ==
    (ReleasedTouch /\ ~gest.exceeded) =>
        Cardinality(Emitted(th, "tap")) = 1 /\ Emitted(th, "swipe") = {}

\* C6 witness: a release after a move at exactly the threshold distance.
C6_Witness ==
    /\ ReleasedTouch /\ ~gest.exceeded
    /\ DistSq(gest.last.x - gest.start.x, gest.last.y - gest.start.y)
          = Threshold * Threshold
    /\ Cardinality(Emitted(th, "tap")) = 1

Abs(n) == IF n < 0 THEN -n ELSE n

WithinMax(v) == Abs(v.num) <= MaxVelocity * v.den

\* C7: after a sequence in which some move exceeded the threshold, the release
\* emits one swipe, whose velocityX and velocityY are within maxVelocity in
\* absolute value.
C7_SwipeVelocityClamped ==
    (ReleasedTouch /\ gest.exceeded) =>
        /\ Cardinality(Emitted(th, "swipe")) = 1
        /\ \A i \in Emitted(th, "swipe") :
              /\ WithinMax(th.emitted[i].data.velocityX)
              /\ WithinMax(th.emitted[i].data.velocityY)

\* C8: the mouse-driven handler emits what the touch-driven one emits for the
\* same coordinates, names and payloads.
C8_MouseMirrorsTouch == mh.emitted = th.emitted

GestureState(h) ==
    [touchStart |-> h.touchStart, touchCurrent |-> h.touchCurrent,
     isDragging |-> h.isDragging, velocity |-> h.velocity]

\* C9: after destroy(), no event changes the gesture state or invokes a
\* callback.
C9_DestroyDetaches ==
    [][destroyed => (GestureState(th') = GestureState(th) /\ th'.calls = <<>>)]_vars

RECURSIVE Invocations(_, _)
\* The invocations emissions es call for, given the registrations rs.
Invocations(es, rs) ==
    IF es = <<>> THEN <<>>
    ELSE LET e == Head(es)
             for == SelectSeq(rs, LAMBDA r : r.event = e.event)
         IN  [i \in 1..Len(for) |-> [cb |-> for[i].cb, event |-> e.event, data |-> e.data]]
             \o Invocations(Tail(es), rs)

\* C10: each emission invokes the callbacks registered for its event, once
\* each, in registration order, and no other callback.
C10_CallbacksInOrder == th.calls = Invocations(th.emitted, regs)

\* C10 witness: an emission of an event with two callbacks, while a callback
\* is registered for an event that is not emitted.
C10_Witness ==
    /\ \E i \in DOMAIN th.emitted :
          Len(SelectSeq(regs, LAMBDA r : r.event = th.emitted[i].event)) >= 2
    /\ \E j \in DOMAIN regs : Emitted(th, regs[j].event) = {}
    /\ Len(th.calls) >= 2

----------------------------------------------------------------------------
(* utils.debounce and utils.throttle: actions *)

\* Timers run on time: a timer that is due runs before the clock advances and
\* before any further call is delivered.
TimersQuiet == \A tm \in ut.timers : tm.due > now

UtilInit ==
    /\ now = 0
    /\ ControllerInit({MaxDuration})
    /\ HandlerInit
    /\ UtilsInit(1..MaxDelay, {DefaultViewport})

UtilTick ==
    /\ now < MaxUtilClock
    /\ TimersQuiet
    /\ now' = now + 1
    /\ UNCHANGED <<animVars, touchVars, utilVars>>

\* The debounced function is called; its argument is the number of the call.
CallDebounced ==
    /\ Len(ut.calls) < MaxCalls
    /\ TimersQuiet
    /\ ut' = DebouncedCall(Called(ut, now), Len(ut.calls) + 1, now)
    /\ UNCHANGED <<now, animVars, touchVars, rh>>

\* A due timer of debounce runs its callback `later`.
FireLater ==
    /\ \E tm \in ut.timers :
          /\ tm.kind = "later"
          /\ tm.due <= now
          /\ ut' = Later([ut EXCEPT !.timers = @ \ {tm}], tm.args, now)
    /\ UNCHANGED <<now, animVars, touchVars, rh>>

DebounceNext == UtilTick \/ CallDebounced \/ FireLater

DebounceSpec == UtilInit /\ [][DebounceNext]_vars

\* The throttled function is called; its argument is the number of the call.
CallThrottled ==
    /\ Len(ut.calls) < MaxCalls
    /\ TimersQuiet
    /\ ut' = ThrottledCall(Called(ut, now), Len(ut.calls) + 1, now)
    /\ UNCHANGED <<now, animVars, touchVars, rh>>

\* The due timer of throttle runs its callback.
FireRelease ==
    /\ \E tm \in ut.timers :
          /\ tm.kind = "release"
          /\ tm.due <= now
          /\ ut' = Release([ut EXCEPT !.timers = @ \ {tm}])
    /\ UNCHANGED <<now, animVars, touchVars, rh>>

ThrottleNext == UtilTick \/ CallThrottled \/ FireRelease

ThrottleSpec == UtilInit /\ [][ThrottleNext]_vars

----------------------------------------------------------------------------
(* Properties of utils.debounce and utils.throttle *)

\* Call i closes a burst: the next call comes no sooner than delay after it.
ClosesBurst(i) ==
    i < Len(ut.calls) /\ ut.calls[i + 1].at - ut.calls[i].at >= ut.delay

\* The bursts whose invocation is over (Due) or may be over (DueNow).
Due == {i \in DOMAIN ut.calls :
           ClosesBurst(i) \/ (i = Len(ut.calls) /\ ut.calls[i].at + ut.delay < now)}
DueNow == {i \in DOMAIN ut.calls :
              ClosesBurst(i) \/ (i = Len(ut.calls) /\ ut.calls[i].at + ut.delay <= now)}

\* The invocations the bursts closed by the calls in S ask for.
BurstInvocations(S) ==
    LET ends == SortedSeq(S)
    IN  [k \in 1..Len(ends) |->
            [at |-> ut.calls[ends[k]].at + ut.delay, args |-> ut.calls[ends[k]].args]]

\* C11: fn is invoked once per burst, delay after the burst's last call and
\* with that call's arguments, and never while a call younger than delay exists.
C11_DebounceOncePerBurst ==
    /\ ut.invoked \in {BurstInvocations(Due), BurstInvocations(DueNow)}
    /\ \A k \in DOMAIN ut.invoked : \A i \in DOMAIN ut.calls :
          ~(ut.calls[i].at < ut.invoked[k].at
            /\ ut.invoked[k].at - ut.calls[i].at < ut.delay)

\* C11 witness: two bursts have been served, the first one of two calls.
C11_Witness ==
    /\ Len(ut.invoked) = 2
    /\ ut.invoked[1].args = 2
    /\ ut.calls[2].at > ut.calls[1].at

\* The invocations made before call i that are younger than limit at call i.
Recent(i) ==
    {k \in DOMAIN ut.invoked :
        ut.invoked[k].args < i /\ ut.calls[i].at - ut.invoked[k].at < ut.delay}

\* C12: a call invokes fn, synchronously, exactly if no invocation happened
\* within the limit before it; no invocation is made on behalf of a dropped call.
C12_ThrottleDropsWithinLimit ==
    /\ \A i \in DOMAIN ut.calls :
          (\E k \in DOMAIN ut.invoked : ut.invoked[k].args = i) <=> Recent(i) = {}
    /\ \A k \in DOMAIN ut.invoked :
          /\ ut.invoked[k].at = ut.calls[ut.invoked[k].args].at
          /\ \A j \in DOMAIN ut.invoked : ut.invoked[j].args = ut.invoked[k].args => j = k

\* C12 witness: a call was dropped and a later call, limit after the first
\* invocation, was served.
C12_Witness ==
    /\ Len(ut.calls) = 3 /\ Len(ut.invoked) = 2
    /\ ut.invoked[2].args = 3
    /\ ut.calls[2].at > ut.calls[1].at

----------------------------------------------------------------------------
(* ResponsiveHandler: actions *)

RespInit ==
    /\ now = 0
    /\ ControllerInit({MaxDuration})
    /\ HandlerInit
    /\ UtilsInit({MaxDelay}, Viewports)

\* The window is resized to viewport v: the debounced listener is called.
Resize ==
    /\ rh.resizes < MaxResizes
    /\ TimersQuiet
    /\ \E v \in Viewports :
          rh' = [rh EXCEPT
                    !.viewport = v,
                    !.crossed = @ \/ GetBreakpoint(v) # rh.currentBreakpoint,
                    !.resizes = @ + 1]
    /\ ut' = DebouncedCall(Called(ut, now), Len(ut.calls) + 1, now)
    /\ UNCHANGED <<now, animVars, touchVars>>

\* The debounce timer runs: the resize has settled.
Settle ==
    /\ \E tm \in ut.timers :
          /\ tm.kind = "later"
          /\ tm.due <= now
          /\ ut' = Later([ut EXCEPT !.timers = @ \ {tm}], tm.args, now)
    /\ rh' = [ResizeSettled(rh) EXCEPT !.probes = Append(@, Probe(rh.viewport))]
    /\ UNCHANGED <<now, animVars, touchVars>>

RespNext == UtilTick \/ Resize \/ Settle

RespSpec == RespInit /\ [][RespNext]_vars

----------------------------------------------------------------------------
(* Properties of ResponsiveHandler and utils.getBreakpoint *)

\* The settled resizes at which the label differs from the one before.
LabelChanges ==
    SortedSeq({k \in 2..Len(rh.probes) : rh.probes[k].label # rh.probes[k - 1].label})

\* C13: 'change' is invoked exactly at the settled resizes whose label differs
\* from the stored one, with the new label; a settled resize with the stored
\* label invokes nothing and leaves currentBreakpoint as it was.
C13_ChangeOnlyOnNewLabel ==
    /\ rh.notified = [k \in 1..Len(LabelChanges) |-> rh.probes[LabelChanges[k]].label]
    /\ rh.currentBreakpoint = rh.probes[Len(rh.probes)].label

\* C13 witness: a burst crossed a threshold and came back before it settled,
\* and nothing was notified.
C13_Witness ==
    /\ rh.crossed
    /\ Len(rh.probes) = 2
    /\ rh.notified = <<>>
    /\ rh.currentBreakpoint = rh.probes[1].label

\* The label the thresholds 480/768/1024 give the width w.
Label(w) ==
    IF w < 480 THEN "small"
    ELSE IF w < 768 THEN "mobile"
    ELSE IF w < 1024 THEN "tablet"
    ELSE "desktop"

\* C14: getBreakpoint gives every viewport the label of its width w, small
\* below 480, mobile below 768, tablet below 1024, desktop from 1024 on, and
\* in particular the six labels at the thresholds.
C14_BreakpointByWidth ==
    /\ \A k \in DOMAIN rh.probes : rh.probes[k].label = Label(rh.probes[k].w)
    /\ \A v \in Viewports :
          /\ GetBreakpoint(v) = Label(GetViewportWidth(v))
          /\ GetViewportWidth(v) = 400 => GetBreakpoint(v) = "small"
          /\ GetViewportWidth(v) = 480 => GetBreakpoint(v) = "mobile"
          /\ GetViewportWidth(v) = 767 => GetBreakpoint(v) = "mobile"
          /\ GetViewportWidth(v) = 768 => GetBreakpoint(v) = "tablet"
          /\ GetViewportWidth(v) = 1023 => GetBreakpoint(v) = "tablet"
          /\ GetViewportWidth(v) = 1024 => GetBreakpoint(v) = "desktop"

\* C14 witness: the handler has classified widths on both sides of a
\* threshold, one of them through window.innerWidth.
C14_Witness ==
    /\ Len(rh.probes) = 3
    /\ rh.probes[2].w = 767 /\ rh.probes[2].label = "mobile"
    /\ rh.probes[3].w = 768 /\ rh.probes[3].label = "tablet"
    /\ rh.viewport.clientWidth < rh.viewport.innerWidth

----------------------------------------------------------------------------
(* Further properties of the AnimationController *)

\* C15: at most one interpolation loop is live: after animate() has been
\* called for a later animation no onUpdate of an earlier one is invoked, and
\* at most one frame request of the controller is pending.
C15_OneLoopLive ==
    /\ \A j \in DOMAIN log, k \in DOMAIN log :
          (j < k /\ log[j].op = "animate" /\ log[k].op = "onUpdate")
          => log[k].s >= log[j].s
    /\ Cardinality(DOMAIN frameCallbacks) <= 1

\* The animate() call logged at j was made from the onComplete or the final
\* onUpdate callback of a session's completion branch.
StartedInCompletion(j) ==
    /\ j > 1
    /\ log[j].op = "animate"
    /\ \/ log[j - 1].op = "onComplete"
       \/ j - 1 \in FinalUpdates(log[j - 1].s)

\* C18: when a completion branch has finished, the frame handle is null and
\* no frame request is pending; an animation started by the onComplete or the
\* final onUpdate of a completion branch never gets an onUpdate call.
C18_NothingPendingAfterCleanup ==
    /\ (log # <<>> /\ log[Len(log)].op = "cleanup") =>
          animationFrame = Null /\ DOMAIN frameCallbacks = {}
    /\ \A j \in DOMAIN log : \A k \in DOMAIN log :
          (StartedInCompletion(j) /\ Completed(log[j - 1].s))
          => ~IsEntry(k, "onUpdate", log[j].s)

\* C18 witness: onComplete of a session called animate(), and the session's
\* cleanup has just returned.
C18_Witness ==
    \E j \in DOMAIN log :
        /\ StartedInCompletion(j)
        /\ log[j - 1].op = "onComplete"
        /\ log[Len(log)] = Entry("cleanup", log[j - 1].s, 0, 0)

----------------------------------------------------------------------------
(* Further properties of the TouchHandler *)

Releases == {"touchend", "mouseup"}

\* C16: isDragging is true only if a move since the most recent start event
\* lay beyond the threshold from the start point, and once true it stays true
\* under every event that is not a release, a further touchstart or mousedown
\* included.
C16_DraggingUntilRelease ==
    [][/\ th'.isDragging => gest'.exceeded
       /\ (th.isDragging /\ gest'.lastEvent \notin Releases) => th'.isDragging]_vars

\* C17: a release emits one 'tap', carrying the start point, if the handler
\* did not enter dragging since the start (for a touch gesture: if no move lay
\* beyond the threshold), and one 'swipe' otherwise; then one 'touchend',
\* whose callbacks see isDragging false and velocity (0, 0).
C17_ReleaseEmitsOneThenEnd ==
    [][gest'.lastEvent \in Releases =>
          LET e == th'.emitted
          IN  /\ Len(e) = 2
              /\ e[1].event \in {"tap", "swipe"}
              /\ e[1].event = "tap" <=> ~th.isDragging
              /\ (gest.kind = "touch" /\ gest.ends = 0) =>
                    (e[1].event = "tap" <=> ~gest.exceeded)
              /\ (e[1].event = "tap" /\ gest.kind # "none") =>
                    e[1].data = [x |-> gest.start.x, y |-> gest.start.y]
              /\ e[2] = [event |-> "touchend", data |-> NoData]
              /\ th'.seen[2] = [isDragging |-> FALSE, atRest |-> TRUE]]_vars

\* C17 witness: a drag with a velocity has been released as a swipe.
C17_Witness ==
    /\ gest.lastEvent \in Releases
    /\ Len(th.emitted) = 2
    /\ th.emitted[1].event = "swipe"
    /\ th.seen[1] = [isDragging |-> TRUE, atRest |-> FALSE]
    /\ th.seen[2] = [isDragging |-> FALSE, atRest |-> TRUE]

\* C19: a release that arrives with no gesture open, before any start event
\* or after the release that closed the gesture, emits neither 'tap' nor
\* 'swipe'.
C19_EmissionsBelongToGesture ==
    (gest.lastEvent \in Releases /\ (gest.kind = "none" \/ gest.ends >= 2)) =>
        Emitted(th, "tap") = {} /\ Emitted(th, "swipe") = {}

----------------------------------------------------------------------------
(* One physical tap on a touch screen: the browser delivers touchstart and
   touchend and then, the listeners being passive, the compatibility
   mousedown and mouseup at the same point. phys.stage counts the events
   delivered for the tap, phys.taps the 'tap' events emitted for it. *)

Taps(h) == Cardinality(Emitted(h, "tap"))

CompatTouchStart ==
    /\ phys.stage \in {0, 4}
    /\ Tick(MaxClock)
    /\ \E p \in Points :
          /\ th' = OnTouchStart(Fresh(th), p, now')
          /\ gest' = Started("touch", p, "touchstart", 1)
    /\ phys' = [stage |-> 1, taps |-> 0]
    /\ UNCHANGED <<animVars, listeners, nextFn, regs, destroyed, mh, utilVars>>

\* The finger trembles: a move that stays within the threshold.
CompatTouchMove ==
    /\ phys.stage = 1
    /\ Tick(MaxClock)
    /\ \E p \in Points :
          /\ ~Exceeds(p, gest.start)
          /\ th' = OnTouchMove(Fresh(th), <<p>>, now')
          /\ gest' = Moved("touch", p, "touchmove")
    /\ UNCHANGED <<animVars, listeners, nextFn, regs, destroyed, mh, phys, utilVars>>

CompatTouchEnd ==
    /\ phys.stage = 1
    /\ Tick(MaxClock)
    /\ th' = OnTouchEnd(Fresh(th))
    /\ gest' = Ended("touch", "touchend", 0)
    /\ phys' = [stage |-> 2, taps |-> phys.taps + Taps(th')]
    /\ UNCHANGED <<animVars, listeners, nextFn, regs, destroyed, mh, utilVars>>

CompatMouseDown ==
    /\ phys.stage = 2
    /\ Tick(MaxClock)
    /\ th' = OnMouseDown(Fresh(th), gest.start, now')
    /\ gest' = Noted("mousedown")
    /\ phys' = [phys EXCEPT !.stage = 3]
    /\ UNCHANGED <<animVars, listeners, nextFn, regs, destroyed, mh, utilVars>>

CompatMouseUp ==
    /\ phys.stage = 3
    /\ Tick(MaxClock)
    /\ th' = OnMouseUp(Fresh(th))
    /\ gest' = Noted("mouseup")
    /\ phys' = [stage |-> 4, taps |-> phys.taps + Taps(th')]
    /\ UNCHANGED <<animVars, listeners, nextFn, regs, destroyed, mh, utilVars>>

CompatNext ==
    \/ CompatTouchStart \/ CompatTouchMove \/ CompatTouchEnd
    \/ CompatMouseDown \/ CompatMouseUp

CompatSpec == TouchInit /\ [][CompatNext]_vars

\* C20: the events of one physical tap, touchstart, touchend and the
\* compatibility mousedown, mouseup, make the handler emit 'tap' at most once.
C20_TapOncePerPhysicalTap == phys.taps <= 1

====
